---- MODULE Spec2Model ----
(***************************************************************************)
(* caddygit: a Caddy app that keeps git working copies up to date.         *)
(*                                                                         *)
(* The model covers the update orchestrator (App.startClients / App.Stop   *)
(* and Client.Start), the command runner (Commander.Run and                *)
(* Command.Execute) and the poll trigger service (Service.Start).  Each    *)
(* client ("session") is one goroutine running Client.Start; its poll      *)
(* service is a second goroutine that feeds a channel of capacity one.     *)
(* Repository.Setup and Repository.Update talk to the network: the model   *)
(* keeps their start, their return and whether they returned an error.     *)
(***************************************************************************)
EXTENDS Integers, Sequences, FiniteSets, TLC

\* ------------------------------------------------------------------ bounds

\* The clients configured in the app (App.Clients).
Clients == {1, 2}

\* Commands configured in the whole app (the sum of len(Client.RawCommands)
\* over the clients).
MaxCmds == 2

\* Timer ticks the poll services of the app deliver, all together, before
\* their tickers stay silent.
MaxTicks == 1

\* Webhook requests made to the app's listeners and to the handler, all
\* together.
MaxReqs == 2

\* Commits pushed to the remote repository after Setup.
MaxCommits == 2

\* Length of the free part of a configured branch, tag or placeholder name,
\* in characters.
MaxName == 3

\* Capacity of the service's tick channel: make(chan error, 1).
TickCap == 1

\* Client.Validate: the poll interval cannot be less than 5 seconds.
MinInterval == 5

\* Client.Provision: an interval of 0 becomes 1 hour.
DefaultInterval == 3600

\* ---------------------------------------------------------------- commands

\* Command{Args, Async}.  Args is the argument vector.
SyncCmd  == [Args |-> <<"sh">>, Async |-> FALSE]
AsyncCmd == [Args |-> <<"sh">>, Async |-> TRUE]
\* A command whose only argument is the empty string.
BlankCmd == [Args |-> <<"">>, Async |-> FALSE]
\* A command with no argument at all.
EmptyCmd == [Args |-> <<>>, Async |-> FALSE]

RECURSIVE SeqsUpTo(_, _)
SeqsUpTo(S, n) ==
    IF n = 0 THEN {<<>>}
    ELSE LET shorter == SeqsUpTo(S, n - 1)
         IN  shorter \cup {Append(s, x) : s \in {t \in shorter : Len(t) = n - 1}, x \in S}

\* Command sets whose commands all have at least one argument.
RunnableCommandSets == SeqsUpTo({SyncCmd, AsyncCmd, BlankCmd}, MaxCmds)
\* Every command set a configuration can hold.
AllCommandSets == SeqsUpTo({SyncCmd, AsyncCmd, BlankCmd, EmptyCmd}, MaxCmds)

\* Command.cmd(): nil for an empty argument vector, else the exec.Cmd.
NilCmd == "nil"
cmd(c) == IF Len(c.Args) = 0 THEN NilCmd ELSE c.Args

\* Command.String(): c.cmd().String().  exec.Cmd.String() reads fields of
\* its receiver, so a nil receiver is a nil-pointer dereference (Panic);
\* otherwise the path and the arguments joined by spaces, which is the empty
\* string exactly when the only argument is the empty string.
Panic == "panic: nil pointer dereference"
String(c) ==
    IF cmd(c) = NilCmd THEN Panic
    ELSE IF cmd(c) = <<"">> THEN "" ELSE "sh"

\* ------------------------------------------------------------------- state

VARIABLES
    cmds,      \* cmds[c]: Commander.Commands of client c
    ctxDone,   \* App.ctx is cancelled
    app,       \* App: [pc, clients, wg, reported]
    sess,      \* sess[c]: the goroutine running Client.Start of client c
    run,       \* run[c]: the Commander.Run call in progress (or the last one)
    svc,       \* svc[c]: the poll service of client c and its tick channel
    crashed,   \* the process died of an unrecovered panic
    hook,      \* hook[r]: webhook request r and the goroutine that serves it
    handler,   \* the http.handlers.git middleware (Handler) and its goroutines
    repo       \* the Repository handle of Repository.Update and its remote

vars == <<cmds, ctxDone, app, sess, run, svc, crashed, hook, handler, repo>>

\* Events on the tick channel: a nil error, the context's error, or another
\* error.
Nil    == "nil"
CtxErr == "context canceled"
Err    == "error"

NoRun ==
    [started |-> <<>>,                       \* indices handed to OnStart, in order
     errs    |-> <<>>,                       \* <<index, error>> handed to OnError
     procs   |-> [i \in 1..MaxCmds |-> "none"],  \* process (group) of command i
     result  |-> "none",                     \* what Run returned
     cancelledInExec |-> 0]                  \* index of the synchronous command
                                             \* that was executing at cancellation

InitSess ==
    [pc |-> "idle", phase |-> "init", runIdx |-> 0,
     setup |-> "none",        \* how Setup returned: "none", "ok", "err"
     lastUpdate |-> "none",   \* how the last Update returned ("none" again once
                              \* the Run that followed it has returned)
     updated |-> FALSE,       \* Update has been called
     ran |-> FALSE,           \* Run has been called
     updating |-> 0,          \* calls of Update in progress
     running |-> 0]           \* calls of Run in progress

\* A poll service with the smallest interval Client.Validate lets through;
\* nothing has been sent on its channel.
InitSvc ==
    [pc |-> "none", chan |-> <<>>, closed |-> FALSE, closes |-> 0,
     ticks |-> 0, sent |-> <<>>, sendAfterClose |-> FALSE,
     kind |-> "poll",         \* "poll" or "webhook"
     interval |-> MinInterval, \* poll.Service.Interval, in seconds
     from |-> <<>>,           \* who sent each event of chan: 0 for the service's
                              \* goroutine, r for the handler of request r
     origin |-> <<>>,         \* the same for each event of sent
     fatal |-> FALSE,         \* the service hit a fatal error of its own
     shut |-> "none",         \* server.Shutdown: "none", "begun", "graceful", "failed"
     forced |-> FALSE,        \* server.Close() was called
     last |-> "none",         \* the event startService sends before it closes
     secret |-> ""]           \* Service.Secret

\* A webhook request that has not been made.
NoReq ==
    [pc |-> "none",       \* "none", "send" (its handler is at s.tick <- err),
                          \* "done" (its handler returned), "panic"
     to |-> 0,            \* the client whose listener got it; 0 for the Handler
     post |-> FALSE,      \* its method is POST
     accept |-> FALSE,    \* the hook finds nothing wrong with body and headers
     resp |-> "none",     \* what ServeHTTP returned for it
     upd |-> "none",      \* the Update goroutine the Handler started for it
     sig |-> <<>>,        \* its X-Hub-Signature header, a string of characters
     body |-> "none"]     \* its body

\* No webhook request has been made.
InitHook == [r \in 1..MaxReqs |-> NoReq]

\* No http.handlers.git middleware is configured.
InitHandler ==
    [pc |-> "none",       \* "none", "provisioned", "serving"
     setupPc |-> "none",  \* the goroutine of Validate: "none", "running", "ok", "err"
     setup |-> FALSE,     \* Handler.setup
     inSetup |-> 0,       \* calls of client.Setup in progress
     updating |-> 0]      \* calls of client.Update in progress

\* No Repository handle is under observation.
InitRepo ==
    [pc |-> "none",          \* "none", "new" (made by New / NewRepository),
                             \* "valid", "rejected" (what the validation of
                             \* the client said), "ready", "failed" (Setup)
     pkg |-> "client",       \* the package of the Repository: "client"
                             \* (client/services.go) or "repository"
                             \* (repository/repository.go)
     latest |-> FALSE,       \* Repository.fetchLatestTag
     ref |-> "branch",       \* what refName is: "branch" or "tag"
     dir |-> "absent",       \* the configured path: "absent", "empty", "other"
                             \* (not empty and not a repository), "repo"
     origin |-> "none",      \* the URL of the remote "origin" of the local
                             \* repository: "none", "old", "url"
     clobbered |-> FALSE,    \* a clone was made into a directory of other files
     remote |-> 0,           \* the newest commit of the branch on the remote
     rtags |-> {},           \* the commits that carry a tag on the remote
     known |-> 0,            \* the newest commit fetched into the local repository
     tags |-> {},            \* the tagged commits known locally
     branch |-> 0,           \* the commit of the local branch
     head |-> 0,             \* the commit the working tree is at
     ops |-> <<>>,           \* the git operations of the last Setup or Update
     valid |-> "none",       \* what the validation of the path returned
     setup |-> "none",       \* what Setup returned
     result |-> "none",      \* what the last Update returned
     callNew |-> FALSE,      \* the remote had something new when it was called
     callNet |-> "none",     \* whether the network worked during it
     callHead |-> 0,         \* where the working tree was when it was called
     callDir |-> "none",     \* the path as Setup found it
     conf |-> [ph |-> FALSE, text |-> <<>>],
                             \* Opts.Branch as configured: a placeholder
                             \* {text} or the text itself
     optsBranch |-> <<>>,    \* Opts.Branch as New gets it
     name |-> <<>>,          \* the short name of Repository.refName
     provision |-> "none"]   \* what provisionClient returned

\* The app after Provision and Validate, with every client configured.
InitApp ==
    [pc |-> "provisioned",
     clients |-> Clients,     \* App.Clients
     wg |-> 0,                \* counter of App.wg
     reported |-> {}]         \* clients whose Start returned an error (logged)

InitCommon ==
    /\ ctxDone = FALSE
    /\ app = InitApp
    /\ sess = [c \in Clients |-> InitSess]
    /\ run = [c \in Clients |-> NoRun]
    /\ svc = [c \in Clients |-> InitSvc]
    /\ crashed = FALSE
    /\ hook = InitHook
    /\ handler = InitHandler
    /\ repo = InitRepo

RECURSIVE TotalCmds(_, _)
TotalCmds(f, S) ==
    IF S = {} THEN 0
    ELSE LET c == CHOOSE x \in S : TRUE
         IN  Len(f[c]) + TotalCmds(f, S \ {c})

\* The configurations of the app.  The clients are interchangeable, so the
\* first one is given the longer command set.
Configs(sets) ==
    {f \in [Clients -> sets] :
        /\ TotalCmds(f, Clients) <= MaxCmds
        /\ Len(f[1]) >= Len(f[2])}

Init ==
    /\ cmds \in Configs(RunnableCommandSets)
    /\ InitCommon

\* ------------------------------------------------------- App.Start / Stop

\* A failing client that takes the whole app down with it.
StartReturnedStopsApp(c, err) ==
    [app EXCEPT !.wg = @ - 1,
                !.reported = IF err THEN @ \cup {c} ELSE @,
                !.pc = IF err THEN "stopping" ELSE @]

\* Client.Start has returned in its goroutine: the deferred a.wg.Done() runs
\* and startClients logs newClientErr(idx, err) when err is not nil.
StartReturned(c, err) ==
    [app EXCEPT !.wg = @ - 1,
                !.reported = IF err THEN @ \cup {c} ELSE @]

\* App.Start -> startClients: for every client a.wg.Add(1) and a goroutine
\* that calls Client.Start, which begins with c.Repo.Setup(ctx).
AppStart ==
    /\ ~crashed
    /\ app.pc = "provisioned"
    /\ app' = [app EXCEPT !.pc = "started", !.wg = @ + Cardinality(app.clients)]
    /\ sess' = [c \in Clients |->
                  IF c \in app.clients THEN [sess[c] EXCEPT !.pc = "setup"] ELSE sess[c]]
    /\ UNCHANGED <<hook, handler, repo, cmds, ctxDone, run, svc, crashed>>

\* Stop that does not wait for the clients.
WgWaitNone == TRUE

\* a.wg.Wait() lets Stop go on.
WgWait == app.wg = 0

\* App.Stop, first half: a.cancel().  A synchronous command that is being
\* waited for at this moment is noted in the run record.
AppStop ==
    /\ ~crashed
    /\ app.pc = "started"
    /\ ctxDone' = TRUE
    /\ app' = [app EXCEPT !.pc = "stopping"]
    /\ run' = [c \in Clients |->
                 IF sess[c].pc = "exec"
                 THEN [run[c] EXCEPT !.cancelledInExec = sess[c].runIdx]
                 ELSE run[c]]
    /\ UNCHANGED <<hook, handler, repo, cmds, sess, svc, crashed>>

\* App.Stop, second half: a.wg.Wait() returns, Stop logs and returns nil.
AppStopReturn ==
    /\ ~crashed
    /\ app.pc = "stopping"
    /\ WgWait
    /\ app' = [app EXCEPT !.pc = "stopped"]
    /\ UNCHANGED <<hook, handler, repo, cmds, ctxDone, sess, run, svc, crashed>>

\* ------------------------------------------------------------ Client.Start

\* Entering c.CommandsAfter.Run(ctx) at its first command; upd is how the
\* Update before it returned ("none" for the Run that follows Setup).
EnterRun(s, ph, upd) ==
    [s EXCEPT !.pc = "run", !.phase = ph, !.runIdx = 1, !.lastUpdate = upd,
              !.ran = TRUE, !.running = @ + 1]

\* Start that goes on although Setup failed.
AfterSetupIgnoreErr(err) == "run"

\* Where Client.Start goes after c.Repo.Setup(ctx) returned.
AfterSetup(err) == IF err THEN "done" ELSE "run"

\* c.Repo.Setup(ctx) returns, with an error or not.
SetupReturn(c) ==
    /\ ~crashed
    /\ sess[c].pc = "setup"
    /\ \E err \in BOOLEAN :
          IF AfterSetup(err) = "done"
          THEN /\ sess' = [sess EXCEPT ![c].pc = "done", ![c].setup = "err"]
               /\ app' = StartReturned(c, TRUE)
               /\ UNCHANGED run
          ELSE /\ sess' = [sess EXCEPT
                              ![c] = EnterRun([@ EXCEPT !.setup = IF err THEN "err" ELSE "ok"],
                                              "init", "none")]
               /\ run' = [run EXCEPT ![c] = NoRun]
               /\ UNCHANGED app
    /\ UNCHANGED <<hook, handler, repo, cmds, ctxDone, svc, crashed>>

\* ------------------------------------------------------------ Commander.Run

\* Run returns res to Client.Start.
RunReturns(c, r, res) ==
    /\ run' = [run EXCEPT ![c] = [r EXCEPT !.result = res]]
    /\ sess' = [sess EXCEPT ![c].pc = "ran", ![c].running = @ - 1]
    /\ UNCHANGED <<svc, app>>

\* Run goes on to the next command of the range loop.
RunContinues(c, r) ==
    /\ run' = [run EXCEPT ![c] = r]
    /\ sess' = [sess EXCEPT ![c].pc = "run", ![c].runIdx = @ + 1]
    /\ UNCHANGED <<svc, app>>

\* Run that does not look at the context after a command (it returns nil
\* once the range loop is over).
AfterExecuteNoCheck(c, r) == RunContinues(c, r)

\* The select after cmd.Execute: return ctx.Err() when the context is done,
\* continue otherwise.
AfterExecute(c, r) ==
    IF ctxDone THEN RunReturns(c, r, CtxErr) ELSE RunContinues(c, r)

\* OnStart(cmd) and OnError(err) hooks.
OnStart(r, i) == [r EXCEPT !.started = Append(@, i)]
OnError(r, i, err) == [r EXCEPT !.errs = Append(@, <<i, err>>)]

AtCommand(c) ==
    /\ ~crashed
    /\ sess[c].pc = "run"
    /\ sess[c].runIdx <= Len(cmds[c])

CurCmd(c) == cmds[c][sess[c].runIdx]

\* The range loop is over: return nil.
RunDone(c) ==
    /\ ~crashed
    /\ sess[c].pc = "run"
    /\ sess[c].runIdx > Len(cmds[c])
    /\ RunReturns(c, run[c], Nil)
    /\ UNCHANGED <<hook, handler, repo, cmds, ctxDone, crashed>>

\* cmd.String() == "": continue, without the select on the context.
RunSkip(c) ==
    /\ AtCommand(c)
    /\ String(CurCmd(c)) = ""
    /\ RunContinues(c, run[c])
    /\ UNCHANGED <<hook, handler, repo, cmds, ctxDone, crashed>>

\* cmd.String() on a command without arguments dereferences the nil *exec.Cmd
\* that cmd() returned: the goroutine panics and the process dies.
RunPanic(c) ==
    /\ AtCommand(c)
    /\ String(CurCmd(c)) = Panic
    /\ crashed' = TRUE
    /\ sess' = [sess EXCEPT ![c].pc = "panic"]
    /\ UNCHANGED <<hook, handler, repo, cmds, ctxDone, app, run, svc>>

Runnable(c) ==
    /\ AtCommand(c)
    /\ String(CurCmd(c)) \notin {"", Panic}

\* OnStart, then Execute whose cmd.Start() fails: the error goes to OnError.
RunSpawnFail(c) ==
    /\ Runnable(c)
    /\ AfterExecute(c, OnError(OnStart(run[c], sess[c].runIdx), sess[c].runIdx, "spawn"))
    /\ UNCHANGED <<hook, handler, repo, cmds, ctxDone, crashed>>

\* An Execute that waits for the process of every command.
WaitsAlways(command) == TRUE

\* Execute returns right after cmd.Start() "if c.Async", and else waits for
\* the process or for the context.
Waits(command) == ~command.Async

\* OnStart, then Execute of an async command: the process is started and
\* Execute returns nil at once.
RunAsync(c) ==
    /\ Runnable(c)
    /\ ~Waits(CurCmd(c))
    /\ AfterExecute(c, [OnStart(run[c], sess[c].runIdx) EXCEPT
                          !.procs[sess[c].runIdx] = "running"])
    /\ UNCHANGED <<hook, handler, repo, cmds, ctxDone, crashed>>

\* OnStart, then Execute of a synchronous command: the process is started and
\* Execute waits in its select for the context or for the process.
RunSync(c) ==
    /\ Runnable(c)
    /\ Waits(CurCmd(c))
    /\ run' = [run EXCEPT ![c] = [OnStart(@, sess[c].runIdx) EXCEPT
                                    !.procs[sess[c].runIdx] = "running"]]
    /\ sess' = [sess EXCEPT ![c].pc = "exec"]
    /\ UNCHANGED <<hook, handler, repo, cmds, ctxDone, app, svc, crashed>>

\* Execute's select takes <-ctx.Done(): syscall.Kill(-pid, SIGKILL) ends the
\* process group and Execute returns ctx.Err().
ExecCancel(c) ==
    /\ ~crashed
    /\ sess[c].pc = "exec"
    /\ ctxDone
    /\ AfterExecute(c, OnError([run[c] EXCEPT !.procs[sess[c].runIdx] = "killed"],
                               sess[c].runIdx, CtxErr))
    /\ UNCHANGED <<hook, handler, repo, cmds, ctxDone, crashed>>

\* Execute's select takes <-stream: the process has ended by itself, with a
\* zero or a non-zero exit status.
ExecExit(c) ==
    /\ ~crashed
    /\ sess[c].pc = "exec"
    /\ \E status \in {"ok", "exit"} :
          LET r == [run[c] EXCEPT !.procs[sess[c].runIdx] = "exited"]
          IN  AfterExecute(c, IF status = "ok" THEN r
                              ELSE OnError(r, sess[c].runIdx, status))
    /\ UNCHANGED <<hook, handler, repo, cmds, ctxDone, crashed>>

\* Execute's select takes <-ctx.Done() when the process has just ended by
\* itself: no process is left in the group, syscall.Kill fails and Execute
\* returns that error instead of ctx.Err().
ExecKillFails(c) ==
    /\ ~crashed
    /\ sess[c].pc = "exec"
    /\ ctxDone
    /\ AfterExecute(c, OnError([run[c] EXCEPT !.procs[sess[c].runIdx] = "exited"],
                               sess[c].runIdx, "kill"))
    /\ UNCHANGED <<hook, handler, repo, cmds, ctxDone, crashed>>

\* The process of an async command ends by itself while the Run that started
\* it is still known: nobody waits for it, and its exit status is lost.
AsyncExit(c) ==
    /\ ~crashed
    /\ sess[c].pc \in {"run", "exec", "ran"}
    /\ \E i \in 1..Len(cmds[c]) :
          /\ cmds[c][i].Async
          /\ run[c].procs[i] = "running"
          /\ run' = [run EXCEPT ![c].procs[i] = "exited"]
    /\ UNCHANGED <<hook, handler, repo, cmds, ctxDone, app, sess, svc, crashed>>

\* ------------------------------------------- the channel of a service

\* A send of e on the tick channel by the handler of request r, or by the
\* service's own goroutine (r = 0), goes through.
SendFrom(s, e, r) ==
    [s EXCEPT !.chan = Append(@, e), !.sent = Append(@, e),
              !.from = Append(@, r), !.origin = Append(@, r),
              !.sendAfterClose = @ \/ s.closed]

\* t <- e on the tick channel.
Send(s, e) == SendFrom(s, e, 0)

\* close(t).
Close(s) == [s EXCEPT !.closed = TRUE, !.closes = @ + 1]

\* Service.Start of the poll service refuses an interval that is not
\* positive.
IntervalFatal(i) == i <= 0

\* c.Service.Start(ctx).  The webhook service starts its listener goroutine.
\* The poll service with an interval that is not positive puts an error on
\* the channel, closes it and starts nothing; otherwise it starts its
\* goroutine.
ServiceStart(s) ==
    IF s.kind = "webhook" THEN [s EXCEPT !.pc = "listen"]
    ELSE IF IntervalFatal(s.interval)
    THEN [Close(Send([s EXCEPT !.fatal = TRUE], Err)) EXCEPT !.pc = "exit"]
    ELSE [s EXCEPT !.pc = "first"]

\* ------------------------------------------------- Client.Start: the loop

\* A Start that enters its loop without starting the service.
AfterRunNoService(ph, res) ==
    IF ph = "init" /\ res # Nil THEN "return" ELSE "continue"

\* What Client.Start does with the result of Run: after the first Run (phase
\* "init") an error makes Start return it and nil leads on to
\* c.Service.Start(ctx) and the loop; inside the loop either result leads
\* back to the next event.
AfterRun(ph, res) ==
    IF ph = "init" THEN (IF res # Nil THEN "return" ELSE "service")
    ELSE "continue"

\* Client.Start takes the result of Run.  The run record is dropped.
RunReturned(c) ==
    /\ ~crashed
    /\ sess[c].pc = "ran"
    /\ LET todo == AfterRun(sess[c].phase, run[c].result)
       IN  /\ sess' = [sess EXCEPT ![c].pc = IF todo = "return" THEN "done" ELSE "recv",
                                    ![c].phase = "loop", ![c].runIdx = 0,
                                    ![c].lastUpdate = "none"]
           /\ app' = IF todo = "return" THEN StartReturned(c, TRUE) ELSE app
           /\ svc' = [svc EXCEPT ![c] = IF todo = "service" THEN ServiceStart(@) ELSE @]
    /\ run' = [run EXCEPT ![c] = NoRun]
    /\ UNCHANGED <<hook, handler, repo, cmds, ctxDone, crashed>>

\* A loop that takes the next event while Update is still at work.
AtReceiveEarly(c) == sess[c].pc \in {"recv", "update"}

\* The goroutine is blocked in "for serr := range c.Service.Start(ctx)".
AtReceive(c) == sess[c].pc = "recv"

\* The tick channel is closed and drained: the range loop ends and Start
\* returns nil.  The poll service closes its channel only behind the event
\* that carries ctx.Err(), and the loop returns on that event, so with a poll
\* service this step is never enabled and Next leaves it out; the webhook
\* service can close its channel behind an event the loop goes on from.
RecvClosed(c) ==
    /\ ~crashed
    /\ AtReceive(c)
    /\ Len(svc[c].chan) = 0
    /\ svc[c].closed
    /\ sess' = [sess EXCEPT ![c].pc = "done"]
    /\ app' = StartReturned(c, FALSE)
    /\ UNCHANGED <<hook, handler, repo, cmds, ctxDone, run, svc, crashed>>

\* A loop that finds no error in any event.
EventErrNever(serr) == FALSE

\* "if serr != nil": the event carries an error of the service.
EventErr(serr) == serr # Nil

\* A loop body without the select on the context.
LoopBodyNoCtxCheck(done, serr) ==
    IF serr # Nil THEN "continue" ELSE "update"

\* What the loop body does with a received event: "return" when the context
\* is done, "continue" when the event carries an error, else "update".
LoopBody(done, serr) ==
    IF done THEN "return"
    ELSE IF EventErr(serr) THEN "continue"
    ELSE "update"

\* The range loop receives the next event from the tick channel; then the
\* select of the loop body and what follows it up to c.Repo.Update(ctx).
Recv(c) ==
    /\ ~crashed
    /\ AtReceive(c)
    /\ Len(svc[c].chan) > 0
    /\ LET todo == LoopBody(ctxDone, Head(svc[c].chan))
       IN  /\ sess' = [sess EXCEPT
                         ![c] = IF todo = "return"
                                THEN [@ EXCEPT !.pc = "done"]
                                ELSE IF todo = "continue"
                                THEN [@ EXCEPT !.pc = "recv"]
                                ELSE [@ EXCEPT !.pc = "update",
                                               !.updated = TRUE, !.updating = @ + 1]]
           /\ app' = IF todo = "return" THEN StartReturned(c, TRUE) ELSE app
    /\ svc' = [svc EXCEPT ![c].chan = Tail(@), ![c].from = Tail(@)]
    /\ UNCHANGED <<hook, handler, repo, cmds, ctxDone, run, crashed>>

\* A loop that runs the commands whatever Update returned.
AfterUpdateAlwaysRun(err) == "run"

\* Where the loop goes after c.Repo.Update(ctx) returned.
AfterUpdate(err) == IF err THEN "recv" ELSE "run"

\* A loop that gives up when Update fails.
UpdateFailedEndsSession(s) == [s EXCEPT !.pc = "done", !.lastUpdate = "err"]

\* Update returned an error: it is logged and "continue" takes the loop back
\* to the next event.
UpdateFailed(s) == [s EXCEPT !.pc = "recv", !.lastUpdate = "err"]

\* c.Repo.Update(ctx) returns, with an error or not.
UpdateReturn(c) ==
    /\ ~crashed
    /\ sess[c].pc = "update"
    /\ \E err \in BOOLEAN :
          LET s == [sess[c] EXCEPT !.updating = @ - 1]
          IN  IF AfterUpdate(err) = "run"
              THEN /\ sess' = [sess EXCEPT
                                  ![c] = EnterRun(s, "loop", IF err THEN "err" ELSE "ok")]
                   /\ run' = [run EXCEPT ![c] = NoRun]
              ELSE /\ sess' = [sess EXCEPT ![c] = UpdateFailed(s)]
                   /\ UNCHANGED run
    /\ UNCHANGED <<hook, handler, repo, cmds, ctxDone, app, svc, crashed>>

\* ------------------------------------------------------ poll Service.Start

\* A send on the tick channel can go through: the buffer has room.
CanSend(c) == Len(svc[c].chan) < TickCap

\* A service that waits for its first timer tick before it emits anything.
FirstEventNone(s) == s

\* "update once when the service starts": t <- nil.
FirstEvent(s) == Send(s, Nil)

\* The goroutine of Service.Start begins with its first event, before the
\* ticker is made.
PollFirst(c) ==
    /\ ~crashed
    /\ svc[c].pc = "first"
    /\ CanSend(c)
    /\ svc' = [svc EXCEPT ![c] = [FirstEvent(@) EXCEPT !.pc = "select"]]
    /\ UNCHANGED <<hook, handler, repo, cmds, ctxDone, app, sess, run, crashed>>

\* Timer ticks delivered so far by the services of the clients in S.
RECURSIVE TotalTicks(_)
TotalTicks(S) ==
    IF S = {} THEN 0
    ELSE LET c == CHOOSE x \in S : TRUE
         IN  svc[c].ticks + TotalTicks(S \ {c})

\* The select takes <-ticker.C: the goroutine goes to t <- nil.
PollTimer(c) ==
    /\ ~crashed
    /\ svc[c].pc = "select"
    /\ TotalTicks(Clients) < MaxTicks
    /\ svc' = [svc EXCEPT ![c].pc = "tick", ![c].ticks = @ + 1]
    /\ UNCHANGED <<hook, handler, repo, cmds, ctxDone, app, sess, run, crashed>>

\* t <- nil of the ticker case goes through.
PollSendTick(c) ==
    /\ ~crashed
    /\ svc[c].pc = "tick"
    /\ CanSend(c)
    /\ svc' = [svc EXCEPT ![c] = [Send(@, Nil) EXCEPT !.pc = "select"]]
    /\ UNCHANGED <<hook, handler, repo, cmds, ctxDone, app, sess, run, crashed>>

\* A select whose context case is ready at any time.
SelectCtxDoneAlways(done) == TRUE

\* "case <-ctx.Done():" of a select can be taken.
SelectCtxDone(done) == done

\* The select takes <-ctx.Done(): the goroutine goes to t <- ctx.Err().
PollCtxDone(c) ==
    /\ ~crashed
    /\ svc[c].pc = "select"
    /\ SelectCtxDone(ctxDone)
    /\ svc' = [svc EXCEPT ![c].pc = "final"]
    /\ UNCHANGED <<hook, handler, repo, cmds, ctxDone, app, sess, run, crashed>>

\* A goroutine that closes the channel without the last event.
FinalStepsNoEvent(s) == [Close(s) EXCEPT !.pc = "exit"]

\* A goroutine that returns without the last event and without closing.
FinalStepsSilent(s) == [s EXCEPT !.pc = "exit"]

\* The last steps of the goroutine: t <- ctx.Err(), close(t), return.
FinalSteps(s) == [Close(Send(s, CtxErr)) EXCEPT !.pc = "exit"]

\* t <- ctx.Err() goes through; the goroutine closes the channel and returns.
PollFinal(c) ==
    /\ ~crashed
    /\ svc[c].pc = "final"
    /\ CanSend(c)
    /\ svc' = [svc EXCEPT ![c] = FinalSteps(@)]
    /\ UNCHANGED <<hook, handler, repo, cmds, ctxDone, app, sess, run, crashed>>

\* -------------------------------------------------- webhook Service, hooks

\* webhook.ValidateRequest: only the POST method is accepted.
ValidateRequest(req) == IF req.post THEN Nil ELSE Err

\* A hook that does not look at the method.
HandleAnyMethod(req) == IF req.accept THEN Nil ELSE Err

\* Webhook.Handle of the generic and of the github hook: ValidateRequest
\* first, then the body, the signature, the event and the reference name,
\* any of which may make it return an error.
Handle(req) ==
    IF ValidateRequest(req) # Nil THEN Err
    ELSE IF req.accept THEN Nil ELSE Err

\* Service.ServeHTTP: the hook's error wrapped by caddyhttp.Error, or what
\* the next handler returns (nil for caddyNext).
ServeHTTP(req) == IF Handle(req) # Nil THEN Err ELSE Nil

\* Request r is the next one to be made.
NextReq(r) ==
    /\ hook[r].pc = "none"
    /\ \A q \in 1..MaxReqs : q < r => hook[q].pc # "none"

\* The listener of client c's webhook service gets a request: its handler
\* goroutine calls s.ServeHTTP and goes to s.tick <- (the result).
HookRequest(c, r) ==
    /\ ~crashed
    /\ svc[c].kind = "webhook"
    /\ svc[c].pc = "listen"
    /\ NextReq(r)
    /\ \E post, accept \in BOOLEAN :
          hook' = [hook EXCEPT ![r] =
                     [NoReq EXCEPT !.pc = "send", !.to = c, !.post = post,
                                   !.accept = accept,
                                   !.resp = ServeHTTP([post |-> post, accept |-> accept])]]
    /\ UNCHANGED <<handler, repo, cmds, ctxDone, app, sess, run, svc, crashed>>

\* hex.EncodeToString of the HMAC-SHA1 of the body under the key: one value
\* for each key and body.
ExpectedMac(key, body) == <<"mac", key, body>>

\* signature[5:] of Go; slicing a string shorter than that panics.
BoundsPanic == "panic: slice bounds out of range"
SigMac(signature) == SubSeq(signature, 6, Len(signature))

\* Handle of the github hook: ValidateRequest; then, for a request with an
\* X-Hub-Signature header, the secret must not be empty and the header,
\* without its first five characters, must be the HMAC of the body; then the
\* event and the reference name (req.accept).
github_Handle(req, secret) ==
    IF ValidateRequest(req) # Nil THEN Err
    ELSE IF req.sig # <<>> /\ secret = "" THEN Err
    ELSE IF req.sig # <<>> /\ Len(req.sig) < 5 THEN BoundsPanic
    ELSE IF req.sig # <<>> /\ <<SigMac(req.sig)>> # <<ExpectedMac(secret, req.body)>> THEN Err
    ELSE IF req.accept THEN Nil ELSE Err

\* The signatures a request comes with: none, one of fewer than five
\* characters, and the HMAC under a key behind a prefix of five characters.
SigPrefix == <<"s", "h", "a", "1", "=">>
Signatures ==
    {<<>>, <<"s", "h", "a">>}
        \cup {SigPrefix \o ExpectedMac(k, "push") : k \in {"key", "other"}}

\* The listener of client c's webhook service, whose hook is the github
\* hook, gets a request: its handler goroutine calls s.ServeHTTP, which
\* panics with Handle or returns Handle's error or nil, and goes to
\* s.tick <- (the result).
GithubRequest(c, r) ==
    /\ ~crashed
    /\ svc[c].kind = "webhook"
    /\ svc[c].pc = "listen"
    /\ NextReq(r)
    /\ \E post, accept \in BOOLEAN, sig \in Signatures :
          LET req == [NoReq EXCEPT !.to = c, !.post = post, !.accept = accept,
                                   !.sig = sig, !.body = "push"]
              res == github_Handle(req, svc[c].secret)
          IN  hook' = [hook EXCEPT ![r] =
                         IF res = BoundsPanic THEN [req EXCEPT !.pc = "panic"]
                         ELSE [req EXCEPT !.pc = "send", !.resp = res]]
    /\ UNCHANGED <<handler, repo, cmds, ctxDone, app, sess, run, svc, crashed>>

\* The handler's send on s.tick goes through and the handler returns.
HookSend(r) ==
    /\ ~crashed
    /\ hook[r].pc = "send"
    /\ ~svc[hook[r].to].closed
    /\ CanSend(hook[r].to)
    /\ svc' = [svc EXCEPT ![hook[r].to] = SendFrom(@, hook[r].resp, r)]
    /\ hook' = [hook EXCEPT ![r].pc = "done"]
    /\ UNCHANGED <<handler, repo, cmds, ctxDone, app, sess, run, crashed>>

\* The handler's send finds s.tick closed (or s.tick is closed while the
\* handler is blocked in the send): "send on closed channel".  net/http
\* recovers the panic of a handler goroutine and drops the connection.
HookSendPanic(r) ==
    /\ ~crashed
    /\ hook[r].pc = "send"
    /\ svc[hook[r].to].closed
    /\ svc' = [svc EXCEPT ![hook[r].to].sendAfterClose = TRUE]
    /\ hook' = [hook EXCEPT ![r].pc = "panic"]
    /\ UNCHANGED <<handler, repo, cmds, ctxDone, app, sess, run, crashed>>

\* startService: the select takes <-errChan, ListenAndServe has failed.
WhListenFail(c) ==
    /\ ~crashed
    /\ svc[c].pc = "listen"
    /\ svc' = [svc EXCEPT ![c].pc = "whfinal", ![c].fatal = TRUE, ![c].last = Err]
    /\ UNCHANGED <<hook, handler, repo, cmds, ctxDone, app, sess, run, crashed>>

\* startService: the select takes <-ctx.Done() and server.Shutdown(sdCtx)
\* begins: the listener is closed, the requests in progress are waited for.
WhShutdownBegin(c) ==
    /\ ~crashed
    /\ svc[c].pc = "listen"
    /\ SelectCtxDone(ctxDone)
    /\ svc' = [svc EXCEPT ![c].pc = "shutdown", ![c].shut = "begun"]
    /\ UNCHANGED <<hook, handler, repo, cmds, ctxDone, app, sess, run, crashed>>

\* A handler of client c's listener is still at work.
ActiveHandlers(c) == \E r \in 1..MaxReqs : hook[r].to = c /\ hook[r].pc = "send"

\* How server.Shutdown(sdCtx) can return: nil once no request is in
\* progress; an error when the 15 seconds of sdCtx are over first, or when
\* closing the listener fails.
ShutdownResults(active) == IF active THEN {"failed"} ELSE {"graceful", "failed"}

\* A shutdown that closes the server by force in every case.
AfterShutdownAlwaysClose(s, res, closeErr) ==
    [s EXCEPT !.pc = "whfinal", !.shut = res, !.forced = TRUE, !.last = closeErr]

\* What startService does when Shutdown has returned: on an error it calls
\* server.Close() and will send what Close returned, else it will send nil.
AfterShutdown(s, res, closeErr) ==
    IF res = "failed"
    THEN [s EXCEPT !.pc = "whfinal", !.shut = res, !.forced = TRUE, !.last = closeErr]
    ELSE [s EXCEPT !.pc = "whfinal", !.shut = res, !.last = Nil]

\* server.Shutdown(sdCtx) returns.
WhShutdownEnd(c) ==
    /\ ~crashed
    /\ svc[c].pc = "shutdown"
    /\ \E res \in ShutdownResults(ActiveHandlers(c)), closeErr \in {Nil, Err} :
          svc' = [svc EXCEPT ![c] = AfterShutdown(@, res, closeErr)]
    /\ UNCHANGED <<hook, handler, repo, cmds, ctxDone, app, sess, run, crashed>>

\* startService: the last send on s.tick goes through, then close(s.tick).
WhFinal(c) ==
    /\ ~crashed
    /\ svc[c].pc = "whfinal"
    /\ CanSend(c)
    /\ svc' = [svc EXCEPT ![c] = [Close(Send(@, @.last)) EXCEPT !.pc = "exit"]]
    /\ UNCHANGED <<hook, handler, repo, cmds, ctxDone, app, sess, run, crashed>>

\* ------------------------------------------------ Handler (http.handlers.git)

\* Handler.Validate: the client and its service are valid; a goroutine is
\* started that calls h.client.Setup.
HandlerValidate ==
    /\ ~crashed
    /\ handler.pc = "provisioned"
    /\ handler' = [handler EXCEPT !.pc = "serving", !.setupPc = "running",
                                  !.inSetup = @ + 1]
    /\ UNCHANGED <<hook, repo, cmds, ctxDone, app, sess, run, svc, crashed>>

\* h.client.Setup returns in the goroutine of Validate: on an error the
\* goroutine logs it and returns, else it sets handler.setup.
HandlerSetupReturn ==
    /\ ~crashed
    /\ handler.setupPc = "running"
    /\ \E err \in BOOLEAN :
          handler' = [handler EXCEPT !.setupPc = IF err THEN "err" ELSE "ok",
                                     !.setup = ~err,
                                     !.inSetup = @ - 1]
    /\ UNCHANGED <<hook, repo, cmds, ctxDone, app, sess, run, svc, crashed>>

\* A reader of h.setup that can see true before the field was ever set.
ReadSetupAny(flag) == {TRUE, FALSE}

\* What "if !h.setup" can read.  The field is written by the goroutine of
\* Validate and read by the request goroutines without synchronisation: once
\* it has been set a reader may still get the old value.
ReadSetup(flag) == IF flag THEN {TRUE, FALSE} ELSE {FALSE}

\* Handler.ServeHTTP for request r: not found while h.setup reads false;
\* else whs.ServeHTTP, whose error is returned; else a goroutine is started
\* that calls handler.client.Update, and ServeHTTP returns nil.
HandlerRequest(r) ==
    /\ ~crashed
    /\ handler.pc = "serving"
    /\ NextReq(r)
    /\ \E post, accept \in BOOLEAN, ready \in ReadSetup(handler.setup) :
          LET req == [NoReq EXCEPT !.pc = "done", !.post = post, !.accept = accept]
              err == ServeHTTP([post |-> post, accept |-> accept])
          IN  IF ~ready
              THEN /\ hook' = [hook EXCEPT ![r] = [req EXCEPT !.resp = "not found"]]
                   /\ UNCHANGED handler
              ELSE IF err # Nil
              THEN /\ hook' = [hook EXCEPT ![r] = [req EXCEPT !.resp = err]]
                   /\ UNCHANGED handler
              ELSE /\ hook' = [hook EXCEPT ![r] = [req EXCEPT !.resp = Nil,
                                                              !.upd = "running"]]
                   /\ handler' = [handler EXCEPT !.updating = @ + 1]
    /\ UNCHANGED <<repo, cmds, ctxDone, app, sess, run, svc, crashed>>

\* handler.client.Update returns in the goroutine started for request r.
HandlerUpdateReturn(r) ==
    /\ ~crashed
    /\ hook[r].upd = "running"
    /\ hook' = [hook EXCEPT ![r].upd = "done"]
    /\ handler' = [handler EXCEPT !.updating = @ - 1]
    /\ UNCHANGED <<repo, cmds, ctxDone, app, sess, run, svc, crashed>>

\* --------------------------------------------------------------- Repository

\* git.NoErrAlreadyUpToDate, errNoTag, git.ErrRepositoryNotExists and
\* errNotGitDir.
NoErrAlreadyUpToDate == "already up-to-date"
ErrNoTag == "no tag found"
ErrRepositoryNotExists == "repository does not exist"
ErrNotGitDir == "given path is neither empty nor a git directory"

\* The commits of the tracked branch are 0, 1, ... in the order they were
\* made; SideCommit is a commit of another branch of the remote.
SideCommit == 0 - 1

\* The log of commit h: the commits reachable from it.
Log(h) == 0..h

\* The git operation o is performed on the repository.
Op(r, o) == [r EXCEPT !.ops = Append(@, o)]

\* The remote holds a commit or a tag the local repository has not fetched.
RemoteHasNew(r) == r.known # r.remote \/ r.tags # r.rtags

\* r.fetch(ctx): FetchContext with Tags: git.AllTags.  go-git returns
\* NoErrAlreadyUpToDate when the remote has nothing new, and fetch returns
\* whatever FetchContext returned.  A fetch moves no local branch.
fetch(r, net) ==
    LET f == Op(r, "fetch")
    IN  IF net = "fail" THEN [repo |-> f, err |-> Err]
        ELSE IF ~RemoteHasNew(r) THEN [repo |-> f, err |-> NoErrAlreadyUpToDate]
        ELSE [repo |-> [f EXCEPT !.known = r.remote, !.tags = r.rtags], err |-> Nil]

\* r.pull(ctx): wtree.PullContext of refName.  go-git fetches the branch,
\* returns NoErrAlreadyUpToDate when nothing was fetched and the working tree
\* is not behind, and else moves the branch and the working tree forward;
\* pull returns whatever PullContext returned.
pull(r, net) ==
    LET p == Op(r, "pull")
    IN  IF net = "fail" THEN [repo |-> p, err |-> Err]
        ELSE IF r.known = r.remote /\ r.head >= r.remote
        THEN [repo |-> p, err |-> NoErrAlreadyUpToDate]
        ELSE [repo |-> [p EXCEPT !.known = r.remote, !.branch = r.remote,
                                 !.head = r.remote],
              err |-> Nil]

\* r.checkout(ref): the working tree moves to commit n.
checkout(r, n) == [Op(r, "checkout") EXCEPT !.head = n]

\* The commit refName points at: the local branch, or the configured tag
\* (it sits on the first commit).
RefCommit(r) == IF r.ref = "branch" THEN r.branch ELSE 0

\* The tagged commits among the commits of the log of HEAD.
TagsInLog(r) == r.tags \cap Log(r.head)

\* A search that takes the newest of all the tags of the repository.
getLatestTagOfAll(r, net) ==
    LET f == fetch(r, net)
        c == checkout(f.repo, RefCommit(f.repo))
    IN  IF f.err # Nil THEN [repo |-> f.repo, err |-> f.err, tag |-> 0]
        ELSE IF c.tags = {} THEN [repo |-> c, err |-> ErrNoTag, tag |-> 0]
        ELSE [repo |-> c, err |-> Nil,
              tag |-> CHOOSE t \in c.tags : \A u \in c.tags : u <= t]

\* r.getLatestTag(ctx): fetch, checkout of refName, then the first commit of
\* the log of HEAD (newest first) that carries a tag; errNoTag when there is
\* none.
getLatestTag(r, net) ==
    LET f == fetch(r, net)
        c == checkout(f.repo, RefCommit(f.repo))
    IN  IF f.err # Nil THEN [repo |-> f.repo, err |-> f.err, tag |-> 0]
        ELSE IF TagsInLog(c) = {} THEN [repo |-> c, err |-> ErrNoTag, tag |-> 0]
        ELSE [repo |-> c, err |-> Nil,
              tag |-> CHOOSE t \in TagsInLog(c) : \A u \in TagsInLog(c) : u <= t]

\* An Update that pulls whatever refName is.
UpdatePullsAnyRef(r, net) ==
    IF r.latest
    THEN LET lt == getLatestTag(r, net)
         IN  IF lt.err # Nil THEN [repo |-> lt.repo, err |-> lt.err]
             ELSE [repo |-> checkout(lt.repo, lt.tag), err |-> Nil]
    ELSE pull(r, net)

\* Repository.Update(ctx) of package client.
Update(r, net) ==
    IF r.latest
    THEN LET lt == getLatestTag(r, net)
         IN  IF lt.err # Nil THEN [repo |-> lt.repo, err |-> lt.err]
             ELSE [repo |-> checkout(lt.repo, lt.tag), err |-> Nil]
    ELSE IF r.ref = "branch" THEN pull(r, net)
    ELSE [repo |-> r, err |-> Nil]

\* An Update that returns errNoTag like any other error of the search.
repository_UpdateNoTagFails(r, net) ==
    IF r.latest
    THEN LET lt == getLatestTag(r, net)
         IN  IF lt.err = Nil THEN [repo |-> checkout(lt.repo, lt.tag), err |-> Nil]
             ELSE [repo |-> lt.repo, err |-> lt.err]
    ELSE IF r.ref = "branch" THEN pull(r, net)
    ELSE [repo |-> r, err |-> Nil]

\* Repository.Update() of package repository: errNoTag is not an error.
repository_Update(r, net) ==
    IF r.latest
    THEN LET lt == getLatestTag(r, net)
         IN  IF lt.err = Nil THEN [repo |-> checkout(lt.repo, lt.tag), err |-> Nil]
             ELSE IF lt.err = ErrNoTag THEN [repo |-> lt.repo, err |-> Nil]
             ELSE [repo |-> lt.repo, err |-> lt.err]
    ELSE IF r.ref = "branch" THEN pull(r, net)
    ELSE [repo |-> r, err |-> Nil]

\* The validation of the configured path (Client.Validate,
\* App.validateClient): a path that does not exist, a repository and an
\* empty directory pass; anything else is errNotGitDir.
ValidatePath(dir) == IF dir = "other" THEN ErrNotGitDir ELSE Nil

\* git.PlainOpen(r.path).
PlainOpen(dir) == IF dir = "repo" THEN Nil ELSE ErrRepositoryNotExists

\* git.PlainCloneContext(ctx, r.path, ...): go-git makes the directory if it
\* is missing, initialises a repository in it whatever else it holds, fetches
\* and checks the reference out into it.
PlainCloneContext(r, net) ==
    LET c == Op(r, "clone")
    IN  IF net = "fail" THEN [repo |-> c, err |-> Err]
        ELSE [repo |-> [c EXCEPT !.dir = "repo", !.origin = "url",
                                 !.clobbered = (r.dir = "other"),
                                 !.known = r.remote, !.tags = r.rtags,
                                 !.branch = r.remote,
                                 !.head = IF r.ref = "branch" THEN r.remote ELSE 0],
              err |-> Nil]

\* Setup of a path that opened: the remote is deleted (ErrRemoteNotFound is
\* let through) and created again with the configured URL, then fetch and
\* checkout of refName.  Package client lets NoErrAlreadyUpToDate of the
\* fetch through (tolerant), package repository returns it.
SetupOpened(r, net, tolerant) ==
    LET d == [Op(Op(r, "DeleteRemote"), "CreateRemote") EXCEPT !.origin = "url"]
        f == fetch(d, net)
    IN  IF f.err # Nil /\ ~(tolerant /\ f.err = NoErrAlreadyUpToDate)
        THEN [repo |-> f.repo, err |-> f.err]
        ELSE [repo |-> checkout(f.repo, RefCommit(f.repo)), err |-> Nil]

\* Repository.Setup() of package repository.
repository_Setup(r, net) ==
    IF PlainOpen(r.dir) = Nil THEN SetupOpened(r, net, FALSE)
    ELSE PlainCloneContext(r, net)

\* r.setRef(ctx): the references of the remote are fetched into memory and
\* listed, and refName becomes the branch or the tag of the configured name.
setRef(r, net) == IF net = "fail" THEN Err ELSE Nil

\* Repository.Setup(ctx) of package client.
Setup(r, net) ==
    IF setRef(r, net) # Nil THEN [repo |-> r, err |-> setRef(r, net)]
    ELSE IF PlainOpen(r.dir) = Nil THEN SetupOpened(r, net, TRUE)
    ELSE PlainCloneContext(r, net)

\* The client of the repository is validated.
RepoValidate ==
    /\ repo.pc = "new"
    /\ repo' = [repo EXCEPT !.valid = ValidatePath(repo.dir),
                            !.pc = IF ValidatePath(repo.dir) = Nil
                                   THEN "valid" ELSE "rejected"]
    /\ UNCHANGED <<hook, handler, cmds, ctxDone, app, sess, run, svc, crashed>>

\* Somebody else makes, empties, fills or removes the directory of the
\* path before Setup runs.
DirChange ==
    /\ repo.pc \in {"new", "valid"}
    /\ repo.dir # "repo"
    /\ \E d \in {"absent", "empty", "other"} :
          /\ d # repo.dir
          /\ repo' = [repo EXCEPT !.dir = d]
    /\ UNCHANGED <<hook, handler, cmds, ctxDone, app, sess, run, svc, crashed>>

\* A call of Repository.Setup, with the network working or not.
RepoSetup ==
    /\ repo.pc = "valid"
    /\ \E net \in {"ok", "fail"} :
          LET r == [repo EXCEPT !.ops = <<>>]
              u == IF repo.pkg = "client" THEN Setup(r, net)
                   ELSE repository_Setup(r, net)
          IN  repo' = [u.repo EXCEPT !.setup = u.err,
                                     !.pc = IF u.err = Nil THEN "ready" ELSE "failed",
                                     !.callNew = RemoteHasNew(repo),
                                     !.callNet = net,
                                     !.callDir = repo.dir]
    /\ UNCHANGED <<hook, handler, cmds, ctxDone, app, sess, run, svc, crashed>>

\* Somebody pushes a commit to the branch on the remote.
RemotePush ==
    /\ repo.pc \in {"valid", "ready"}
    /\ repo.remote < MaxCommits
    /\ repo' = [repo EXCEPT !.remote = @ + 1]
    /\ UNCHANGED <<hook, handler, cmds, ctxDone, app, sess, run, svc, crashed>>

\* Somebody tags the newest commit of the branch on the remote, or a commit
\* of another branch.
RemoteTag ==
    /\ repo.pc \in {"valid", "ready"}
    /\ \E t \in {repo.remote, SideCommit} :
          /\ t \notin repo.rtags
          /\ repo' = [repo EXCEPT !.rtags = @ \cup {t}]
    /\ UNCHANGED <<hook, handler, cmds, ctxDone, app, sess, run, svc, crashed>>

\* A call of Repository.Update, with the network working or not.
RepoUpdate ==
    /\ repo.pc = "ready"
    /\ \E net \in {"ok", "fail"} :
          LET r == [repo EXCEPT !.ops = <<>>]
              u == IF repo.pkg = "client" THEN Update(r, net)
                   ELSE repository_Update(r, net)
          IN  repo' = [u.repo EXCEPT !.result = u.err,
                                     !.callNew = RemoteHasNew(repo),
                                     !.callNet = net,
                                     !.callHead = repo.head]
    /\ UNCHANGED <<hook, handler, cmds, ctxDone, app, sess, run, svc, crashed>>

\* ------------------------------------------------------------ reference names

\* A string is the sequence of its characters.  The words the code compares
\* with are single characters of the model: "git", "ref", "branch", "tag",
\* "latest_tag", "latest_commit" and "master"; "." and "|" are themselves.

\* s[n:] and s[:n] of Go.
From(s, n) == SubSeq(s, n + 1, Len(s))
Upto(s, n) == SubSeq(s, 1, n)

\* strings.HasPrefix, strings.HasSuffix.
HasPrefix(s, p) == Len(p) <= Len(s) /\ Upto(s, Len(p)) = p
HasSuffix(s, p) == Len(p) <= Len(s) /\ From(s, Len(s) - Len(p)) = p

\* strings.Split(s, d) for a separator of one character: the pieces between
\* the separators, one more than there are separators.
RECURSIVE Split(_, _)
Split(s, d) ==
    IF \A i \in 1..Len(s) : s[i] # d
    THEN <<s>>
    ELSE LET i == CHOOSE k \in 1..Len(s) :
                      s[k] = d /\ \A j \in 1..(k - 1) : s[j] # d
         IN  <<Upto(s, i - 1)>> \o Split(From(s, i), d)

separateDelimeter == "|"
latestCommit == "latest_commit"
latestTag == "latest_tag"
tag == "tag"

newReferenceName(name, typ) == <<typ, separateDelimeter>> \o name
NewLatestCommitReferenceName(name) == newReferenceName(name, latestCommit)
NewLatestTagReferenceName(name) == newReferenceName(name, latestTag)
NewTagReferenceName(name) == newReferenceName(name, tag)

isType(r, typ) == HasPrefix(r, <<typ, separateDelimeter>>)
IsLatestCommit(r) == isType(r, latestCommit)
IsLatestTag(r) == isType(r, latestTag)
IsTag(r) == isType(r, tag)

\* ReferenceName.Name: the second piece.
Name(r) == Split(r, separateDelimeter)[2]

\* A validity test that counts the pieces only.
IsValidAnyType(r) == Len(Split(r, separateDelimeter)) = 2

\* ReferenceName.IsValid: two pieces, the first of which is a type.
IsValid(r) ==
    LET opts == Split(r, separateDelimeter)
    IN  /\ Len(opts) = 2
        /\ opts[1] \in {<<latestCommit>>, <<latestTag>>, <<tag>>}

DefaultBranch == <<"master">>

\* plumbing.NewBranchReferenceName, plumbing.NewTagReferenceName.
BranchRef(n) == [kind |-> "branch", name |-> n]
TagRef(n) == [kind |-> "tag", name |-> n]

\* repository.New, for Opts.Branch: refName and fetchLatestTag.
New(branch) ==
    IF ~IsValid(branch)
    THEN [refName |-> BranchRef(IF branch # <<>> THEN branch ELSE DefaultBranch),
          fetchLatestTag |-> FALSE]
    ELSE IF IsTag(branch)
    THEN [refName |-> TagRef(Name(branch)), fetchLatestTag |-> IsLatestTag(branch)]
    ELSE [refName |-> BranchRef(IF Name(branch) # <<>> THEN Name(branch)
                                                       ELSE DefaultBranch),
          fetchLatestTag |-> IsLatestTag(branch)]

replacerRefPrefix == <<"git", ".", "ref", ".">>
replacerRefBranchPrefix == replacerRefPrefix \o <<"branch", ".">>
replacerRefTagPrefix == replacerRefPrefix \o <<"tag", ".">>
replacerRefLatestTagSuffix == <<".", "latest_tag">>
replacerRefLatestCommitSuffix == <<".", "latest_commit">>

\* What a replacer function returns: ("", false), or (value, true).
Unknown == [ok |-> FALSE, val |-> <<>>]
Known(v) == [ok |-> TRUE, val |-> v]

\* gitRefReplacerFunc, for a key that begins with replacerRefPrefix.
gitRefReplacerFunc(key) ==
    IF HasPrefix(key, replacerRefTagPrefix)
    THEN LET tagName == From(key, Len(replacerRefTagPrefix))
         IN  IF tagName = <<>> THEN Unknown ELSE Known(NewTagReferenceName(tagName))
    ELSE IF HasPrefix(key, replacerRefBranchPrefix)
    THEN IF HasSuffix(key, replacerRefLatestTagSuffix)
         THEN LET branchName == Upto(key, Len(key) - Len(replacerRefLatestTagSuffix))
              IN  IF Len(branchName) <= Len(replacerRefBranchPrefix)
                  THEN Unknown
                  ELSE Known(NewLatestTagReferenceName(
                                 From(branchName, Len(replacerRefBranchPrefix))))
         ELSE LET cut == HasSuffix(key, replacerRefLatestCommitSuffix)
                  branchName == IF cut
                                THEN Upto(key, Len(key) - Len(replacerRefLatestCommitSuffix))
                                ELSE key
              IN  IF cut /\ Len(branchName) <= Len(replacerRefBranchPrefix)
                  THEN Unknown
                  ELSE Known(NewLatestCommitReferenceName(
                                 From(branchName, Len(replacerRefBranchPrefix))))
    ELSE IF HasSuffix(key, replacerRefLatestTagSuffix)
    THEN LET branchName == From(Upto(key, Len(key) - Len(replacerRefLatestTagSuffix)),
                                Len(replacerRefPrefix) - 1)
         IN  IF branchName # <<>> THEN Unknown
             ELSE Known(NewLatestTagReferenceName(<<>>))
    ELSE IF HasSuffix(key, replacerRefLatestCommitSuffix)
    THEN LET branchName == From(Upto(key, Len(key) - Len(replacerRefLatestCommitSuffix)),
                                Len(replacerRefPrefix) - 1)
         IN  IF branchName # <<>> THEN Unknown
             ELSE Known(NewLatestCommitReferenceName(<<>>))
    ELSE Unknown

gitReplacerFunc(key) ==
    IF HasPrefix(key, replacerRefPrefix) THEN gitRefReplacerFunc(key) ELSE Unknown

\* repl.ReplaceOrErr(field, false, true) for a field that is one placeholder
\* or has none: a placeholder no replacer function knows is an error.
ReplaceOrErr(field) ==
    IF ~field.ph
    THEN [err |-> FALSE, val |-> field.text]
    ELSE LET r == gitReplacerFunc(field.text)
         IN  [err |-> ~r.ok, val |-> r.val]

\* App.provisionClient: the placeholders of Repository.Branch are replaced,
\* an error of which is returned; else repository.New makes the repository.
provisionClient ==
    /\ repo.pc = "conf"
    /\ LET ref == ReplaceOrErr(repo.conf)
           r == New(ref.val)
       IN  IF ref.err
           THEN repo' = [repo EXCEPT !.pc = "unprovisioned", !.provision = "err"]
           ELSE repo' = [repo EXCEPT !.pc = "new", !.provision = "ok",
                                     !.optsBranch = ref.val,
                                     !.ref = r.refName.kind,
                                     !.name = r.refName.name,
                                     !.latest = r.fetchLatestTag]
    /\ UNCHANGED <<hook, handler, cmds, ctxDone, app, sess, run, svc, crashed>>

\* repository.New called with Opts whose Branch has no placeholder.
RepoNew ==
    /\ repo.pc = "conf"
    /\ ~repo.conf.ph
    /\ LET r == New(repo.conf.text)
       IN  repo' = [repo EXCEPT !.pc = "new",
                                !.optsBranch = repo.conf.text,
                                !.ref = r.refName.kind,
                                !.name = r.refName.name,
                                !.latest = r.fetchLatestTag]
    /\ UNCHANGED <<hook, handler, cmds, ctxDone, app, sess, run, svc, crashed>>

\* ----------------------------------------------------------- specification

Next ==
    \/ AppStart
    \/ AppStop
    \/ AppStopReturn
    \/ \E c \in Clients :
         \/ SetupReturn(c)
         \/ RunDone(c)
         \/ RunSkip(c)
         \/ RunSpawnFail(c)
         \/ RunAsync(c)
         \/ RunSync(c)
         \/ ExecCancel(c)
         \/ ExecKillFails(c)
         \/ ExecExit(c)
         \/ RunReturned(c)
         \/ Recv(c)
         \/ UpdateReturn(c)
         \/ PollFirst(c)
         \/ PollTimer(c)
         \/ PollSendTick(c)
         \/ PollCtxDone(c)
         \/ PollFinal(c)

Spec == Init /\ [][Next]_vars

\* The goroutines are scheduled fairly; Setup and Update return; a blocked
\* send or receive goes through once it can.  No fairness for the timer, for
\* a process ending by itself, or for the host calling Stop.
SessionStep(c) ==
    \/ SetupReturn(c)
    \/ RunDone(c)
    \/ RunSkip(c)
    \/ RunSpawnFail(c)
    \/ RunAsync(c)
    \/ RunSync(c)
    \/ ExecCancel(c)
    \/ ExecKillFails(c)
    \/ RunReturned(c)
    \/ Recv(c)
    \/ UpdateReturn(c)

PollStep(c) ==
    \/ PollFirst(c)
    \/ PollSendTick(c)
    \/ PollCtxDone(c)
    \/ PollFinal(c)

\* Some goroutine that can take a step does so.
Progress ==
    \/ AppStopReturn
    \/ \E c \in Clients : SessionStep(c) \/ PollStep(c)

Fairness == WF_vars(Progress)

FairSpec == Spec /\ Fairness

\* Command sets that may hold a command without arguments.
InitRun ==
    /\ cmds \in Configs(AllCommandSets)
    /\ InitCommon

NextRun ==
    \/ Next
    \/ \E c \in Clients : RunPanic(c)

SpecRun == InitRun /\ [][NextRun]_vars

\* An app of one client, whose commands all have an argument.
InitCmd ==
    /\ cmds \in {f \in Configs(RunnableCommandSets) : f[2] = <<>>}
    /\ ctxDone = FALSE
    /\ app = [InitApp EXCEPT !.clients = {1}]
    /\ sess = [c \in Clients |-> InitSess]
    /\ run = [c \in Clients |-> NoRun]
    /\ svc = [c \in Clients |-> InitSvc]
    /\ crashed = FALSE
    /\ hook = InitHook
    /\ handler = InitHandler
    /\ repo = InitRepo

\* The steps of the app, and the processes of async commands that end.
NextCmd ==
    \/ Next
    \/ \E c \in Clients : AsyncExit(c)

SpecCmd == InitCmd /\ [][NextCmd]_vars

\* Client.Provision: a poll service whose interval is 0 gets the default.
Provision(s) ==
    IF s.kind = "poll" /\ s.interval = 0
    THEN [s EXCEPT !.interval = DefaultInterval]
    ELSE s

\* Client.Validate: the interval of a poll service is 5 seconds or more.
Validate(s) == ~(s.kind = "poll" /\ s.interval < MinInterval)

\* The host loads the configuration of the app: App.Provision, then
\* App.Validate; when a client is not valid the app is never started.
AppProvisionValidate ==
    /\ ~crashed
    /\ app.pc = "loaded"
    /\ svc' = [c \in Clients |-> IF c \in app.clients THEN Provision(svc[c]) ELSE svc[c]]
    /\ app' = [app EXCEPT !.pc = IF \A c \in app.clients : Validate(Provision(svc[c]))
                                 THEN "provisioned" ELSE "rejected"]
    /\ UNCHANGED <<hook, handler, repo, cmds, ctxDone, sess, run, crashed>>

\* Intervals a poll service is configured with.
Intervals == {0 - 1, 0, MinInterval}

\* The services a client is configured with.
WebhookConfig == [InitSvc EXCEPT !.kind = "webhook"]
PollConfigs == {[InitSvc EXCEPT !.interval = i] : i \in Intervals}

\* A git app that the host has not provisioned yet, with one client that has
\* no commands and a webhook or a poll service; or no app and one Handler, in
\* the route of an HTTP server, provisioned and not yet validated.
InitSvcSpec ==
    /\ cmds = [c \in Clients |-> <<>>]
    /\ ctxDone = FALSE
    /\ sess = [c \in Clients |-> InitSess]
    /\ run = [c \in Clients |-> NoRun]
    /\ crashed = FALSE
    /\ hook = InitHook
    /\ repo = InitRepo
    /\ \/ /\ app = [InitApp EXCEPT !.pc = "loaded", !.clients = {1}]
          /\ svc \in {f \in [Clients -> {InitSvc, WebhookConfig} \cup PollConfigs] :
                          \A c \in Clients : c # 1 => f[c] = InitSvc}
          /\ handler = InitHandler
       \/ /\ app = [InitApp EXCEPT !.pc = "absent", !.clients = {}]
          /\ svc = [c \in Clients |-> InitSvc]
          /\ handler = [InitHandler EXCEPT !.pc = "provisioned"]

NextSvc ==
    \/ AppProvisionValidate
    \/ AppStart
    \/ AppStop
    \/ AppStopReturn
    \/ HandlerValidate
    \/ HandlerSetupReturn
    \/ \E c \in Clients :
         \/ SetupReturn(c)
         \/ RunDone(c)
         \/ RunReturned(c)
         \/ Recv(c)
         \/ RecvClosed(c)
         \/ UpdateReturn(c)
         \/ PollFirst(c)
         \/ PollTimer(c)
         \/ PollSendTick(c)
         \/ PollCtxDone(c)
         \/ PollFinal(c)
         \/ WhListenFail(c)
         \/ WhShutdownBegin(c)
         \/ WhShutdownEnd(c)
         \/ WhFinal(c)
         \/ \E r \in 1..MaxReqs : HookRequest(c, r)
    \/ \E r \in 1..MaxReqs :
         \/ HookSend(r)
         \/ HookSendPanic(r)
         \/ HandlerRequest(r)
         \/ HandlerUpdateReturn(r)

SpecSvc == InitSvcSpec /\ [][NextSvc]_vars

\* A Repository made by New (package repository) or NewRepository (package
\* client) for a path that is missing, an empty directory, a directory of
\* other files or a repository cloned at the remote's first commit.  refName
\* is a branch or the tag of the first commit.  New sets fetchLatestTag for a
\* latest_tag reference, which names a branch; NewRepository never sets it.
\* No app and no Handler.
InitRepoSpec ==
    /\ cmds = [c \in Clients |-> <<>>]
    /\ ctxDone = FALSE
    /\ app = [InitApp EXCEPT !.pc = "absent", !.clients = {}]
    /\ sess = [c \in Clients |-> InitSess]
    /\ run = [c \in Clients |-> NoRun]
    /\ svc = [c \in Clients |-> InitSvc]
    /\ crashed = FALSE
    /\ hook = InitHook
    /\ handler = InitHandler
    /\ \E pkg \in {"client", "repository"}, latest \in BOOLEAN,
          ref \in {"branch", "tag"}, tagged \in BOOLEAN,
          dir \in {"absent", "empty", "other", "repo"},
          origin \in {"none", "old", "url"} :
          /\ latest => pkg = "repository" /\ ref = "branch"
          /\ ref = "tag" => tagged
          /\ dir # "repo" => origin = "none"
          /\ repo = [InitRepo EXCEPT !.pc = "new", !.pkg = pkg, !.latest = latest,
                                     !.ref = ref, !.dir = dir, !.origin = origin,
                                     !.rtags = IF tagged THEN {0} ELSE {},
                                     !.tags = IF tagged /\ dir = "repo"
                                              THEN {0} ELSE {}]

NextRepo ==
    \/ RepoValidate
    \/ DirChange
    \/ RepoSetup
    \/ RemotePush
    \/ RemoteTag
    \/ RepoUpdate

SpecRepo == InitRepoSpec /\ [][NextRepo]_vars

\* The characters of the free part of a name, and what may follow it.
NameChars == {"a", ".", separateDelimeter}
NameTails == {<<>>, <<latestTag>>, <<latestCommit>>,
              replacerRefLatestTagSuffix, replacerRefLatestCommitSuffix}

\* Branch and tag names.
Names == {n \o t : n \in SeqsUpTo(NameChars, MaxName), t \in NameTails}

\* The keys of placeholders: what follows "git.ref" is a name, alone or after
\* "branch" or "tag".
Keys ==
    {<<"git", ".", "ref">> \o h \o n :
        h \in {<<>>, <<".">>, <<".", "tag">>, <<".", "tag", ".">>,
               <<".", "branch">>, <<".", "branch", ".">>},
        n \in Names}

\* Branch fields without a placeholder: a name, alone or behind a type and
\* the delimiter.
Literals ==
    {h \o n : h \in {<<>>, <<tag, separateDelimeter>>, <<latestTag, separateDelimeter>>,
                     <<latestCommit, separateDelimeter>>},
              n \in Names}

\* What Repository.Branch is configured with.
Confs == {[ph |-> TRUE, text |-> k] : k \in Keys}
             \cup {[ph |-> FALSE, text |-> l] : l \in Literals}

\* One client of package repository whose Branch is configured; nothing of
\* the app is running.
InitRef ==
    /\ cmds = [c \in Clients |-> <<>>]
    /\ ctxDone = FALSE
    /\ app = [InitApp EXCEPT !.pc = "loaded", !.clients = {1}]
    /\ sess = [c \in Clients |-> InitSess]
    /\ run = [c \in Clients |-> NoRun]
    /\ svc = [c \in Clients |-> InitSvc]
    /\ crashed = FALSE
    /\ hook = InitHook
    /\ handler = InitHandler
    /\ \E cf \in Confs :
          repo = [InitRepo EXCEPT !.pc = "conf", !.pkg = "repository", !.conf = cf]

NextRef ==
    \/ provisionClient
    \/ RepoNew

SpecRef == InitRef /\ [][NextRef]_vars

\* A git app that the host has not provisioned yet, with one client that has
\* no commands and a webhook service with the github hook, with or without a
\* secret.
InitHookSpec ==
    /\ cmds = [c \in Clients |-> <<>>]
    /\ ctxDone = FALSE
    /\ sess = [c \in Clients |-> InitSess]
    /\ run = [c \in Clients |-> NoRun]
    /\ crashed = FALSE
    /\ hook = InitHook
    /\ repo = InitRepo
    /\ app = [InitApp EXCEPT !.pc = "loaded", !.clients = {1}]
    /\ handler = InitHandler
    /\ \E k \in {"", "key"} :
          svc = [c \in Clients |->
                   IF c = 1 THEN [WebhookConfig EXCEPT !.secret = k] ELSE InitSvc]

NextHook ==
    \/ AppProvisionValidate
    \/ AppStart
    \/ \E c \in Clients :
         \/ SetupReturn(c)
         \/ RunDone(c)
         \/ RunReturned(c)
         \/ Recv(c)
         \/ UpdateReturn(c)
         \/ \E r \in 1..MaxReqs : GithubRequest(c, r)
    \/ \E r \in 1..MaxReqs : HookSend(r)

SpecHook == InitHookSpec /\ [][NextHook]_vars

\* ------------------------------------------------------------------ claims

\* C1: within one session at most one of Update and Run is in progress at
\* any time, and both are over when the loop takes the next event.
C1_NoPipelining ==
    \A c \in Clients :
        /\ sess[c].updating + sess[c].running <= 1
        /\ sess[c].pc = "recv" => sess[c].updating = 0 /\ sess[c].running = 0

\* A Run for one event waits for a synchronous command while the next event
\* is already in the channel.
C1_Witness ==
    \E c \in Clients :
        /\ sess[c].pc = "exec" /\ sess[c].phase = "loop"
        /\ sess[c].running = 1
        /\ Len(svc[c].chan) = 1

\* C2: inside the loop Run is in progress (or has just returned) only when
\* the Update for the same event returned no error.
C2_RunOnlyAfterUpdateOk ==
    \A c \in Clients :
        sess[c].phase = "loop" /\ sess[c].pc \in {"run", "exec", "ran"}
            => sess[c].lastUpdate = "ok"

C2_Witness ==
    \E c \in Clients :
        sess[c].phase = "loop" /\ sess[c].pc = "exec" /\ sess[c].lastUpdate = "ok"

\* Indices of the commands that have something to run.
RECURSIVE NonEmptyIdx(_, _)
NonEmptyIdx(cs, i) ==
    IF i > Len(cs) THEN <<>>
    ELSE (IF cs[i].Args \in {<<>>, <<"">>} THEN <<>> ELSE <<i>>) \o NonEmptyIdx(cs, i + 1)

\* C3: best effort: when Run has ended and the context is not cancelled,
\* every non-empty command has been started, once and in configuration order,
\* whichever commands failed.
C3_BestEffort ==
    \A c \in Clients :
        sess[c].pc \in {"ran", "panic"} /\ ~ctxDone
            => run[c].started = NonEmptyIdx(cmds[c], 1)

\* C4: when the context is cancelled while a synchronous command is being
\* waited for, the process does not go on running and Run returns the
\* context's error.
C4_CancelDuringSync ==
    \A c \in Clients :
        sess[c].pc = "ran" /\ run[c].cancelledInExec # 0
            => /\ run[c].result = CtxErr
               /\ run[c].procs[run[c].cancelledInExec] \in {"killed", "exited"}

\* The cancelled command is the last one of a set of two and its process
\* group is killed.
C4_Witness ==
    \E c \in Clients :
        /\ sess[c].pc = "ran"
        /\ Len(cmds[c]) = 2
        /\ run[c].cancelledInExec = 2
        /\ run[c].procs[2] = "killed"
        /\ run[c].result = CtxErr

\* Number of events e in the sequence q.
RECURSIVE Count(_, _)
Count(q, e) ==
    IF q = <<>> THEN 0
    ELSE (IF Head(q) = e THEN 1 ELSE 0) + Count(Tail(q), e)

\* C5: the poll service closes its channel at most once, only when the
\* context is cancelled and right behind one event that carries the
\* context's error, and sends nothing on the closed channel.
C5_FinalEventThenClose ==
    \A c \in Clients :
        /\ svc[c].closes <= 1
        /\ ~svc[c].sendAfterClose
        /\ Count(svc[c].sent, CtxErr) > 0 => ctxDone
        /\ svc[c].closed =>
              /\ ctxDone
              /\ Count(svc[c].sent, CtxErr) = 1
              /\ svc[c].sent[Len(svc[c].sent)] = CtxErr

C5_Witness ==
    \E c \in Clients :
        svc[c].closed /\ Len(svc[c].sent) = 3

\* C6: once the context is cancelled the poll goroutine still gets to its
\* last event, its close and its return: it is never left blocked in a send
\* on the full channel after the loop that reads the channel has returned.
C6_ProducerNotStuck ==
    \A c \in Clients :
        ~(/\ ctxDone
          /\ sess[c].pc = "done"
          /\ svc[c].pc \in {"tick", "final"}
          /\ ~CanSend(c))

\* C7: once the context is cancelled every session goroutine returns and
\* Stop returns.
C7_SessionsExit ==
    ctxDone ~> (app.pc = "stopped" /\ \A c \in Clients : sess[c].pc = "done")

\* The context is cancelled while one session waits for a synchronous
\* command and the other is in Update or blocked on the next event.
C7_Witness ==
    \E c, d \in Clients :
        /\ ctxDone
        /\ sess[c].pc = "exec"
        /\ sess[d].pc \in {"update", "recv"}

\* C8: Stop has returned only when every session goroutine has returned.
C8_StopWaits ==
    app.pc = "stopped" => ctxDone /\ \A c \in Clients : sess[c].pc = "done"

C8_Witness ==
    /\ app.pc = "stopped"
    /\ \E c \in Clients : sess[c].updated

\* C9: a session whose Setup failed is over: no service was started for it
\* and neither Update nor Run was called.
C9_SetupFailureEndsSession ==
    \A c \in Clients :
        sess[c].setup = "err"
            => /\ sess[c].pc = "done"
               /\ svc[c].pc = "none" /\ svc[c].sent = <<>>
               /\ ~sess[c].updated /\ ~sess[c].ran
               /\ run[c] = NoRun

C9_Witness ==
    \E c \in Clients : sess[c].setup = "err"

\* C10: the step in which one session's Setup fails changes nothing of any
\* other session, does not cancel the context and does not stop the app; the
\* app reports the failed session and, until the context is cancelled, no
\* other.
C10_SetupFails(c) ==
    sess[c].setup = "none" /\ sess'[c].setup = "err"

C10_FailureIsolation ==
    /\ [][\A c \in Clients :
            C10_SetupFails(c) =>
                /\ \A d \in Clients \ {c} :
                      sess'[d] = sess[d] /\ svc'[d] = svc[d] /\ run'[d] = run[d]
                /\ ctxDone' = ctxDone
                /\ app'.pc = app.pc
                /\ app'.reported = app.reported \cup {c}]_vars
    /\ [](\A c \in Clients :
            /\ sess[c].setup = "err" => c \in app.reported
            /\ c \in app.reported => sess[c].setup = "err" \/ ctxDone)

\* One session's Setup has failed and its sibling is at work in its loop.
C10_Witness ==
    \E c, d \in Clients :
        /\ sess[c].setup = "err"
        /\ ~ctxDone
        /\ sess[d].pc = "exec" /\ sess[d].phase = "loop"

\* C11: a failed Update does not end the session: until the context is
\* cancelled the session stays in its loop, and the next event without an
\* error that it takes starts Update again.
C11_FailedUpdateRetries ==
    /\ [](\A c \in Clients :
            sess[c].lastUpdate = "err" /\ ~ctxDone
                => sess[c].pc \in {"recv", "update"} /\ app.wg > 0)
    /\ [][\A c \in Clients :
            /\ sess[c].lastUpdate = "err" /\ sess[c].pc = "recv"
            /\ Len(svc'[c].chan) < Len(svc[c].chan)
            /\ Head(svc[c].chan) = Nil /\ ~ctxDone
            => sess'[c].pc = "update" /\ sess'[c].updating = 1]_vars

\* Update is at work again after an Update of the same session failed.
C11_Witness ==
    \E c \in Clients :
        sess[c].lastUpdate = "err" /\ sess[c].pc = "update" /\ ~ctxDone

\* C15: the interval service emits its first event before any timer tick,
\* and then one event without an error for every tick its goroutine has
\* taken from the ticker; no other event before the context is cancelled.
C15_ImmediateThenPerTick ==
    \A c \in Clients :
        /\ svc[c].pc \in {"none", "first"} => svc[c].sent = <<>> /\ svc[c].ticks = 0
        /\ svc[c].pc \in {"select", "tick", "final", "exit"}
              => /\ Len(svc[c].sent) > 0 /\ Head(svc[c].sent) = Nil
                 /\ Count(svc[c].sent, Nil)
                      = 1 + svc[c].ticks - (IF svc[c].pc = "tick" THEN 1 ELSE 0)
        /\ ~ctxDone => Count(svc[c].sent, Nil) = Len(svc[c].sent)

\* The first event and the event of one timer tick have been emitted.
C15_Witness ==
    \E c \in Clients :
        /\ svc[c].pc = "select" /\ svc[c].ticks = 1
        /\ svc[c].sent = <<Nil, Nil>> /\ ~ctxDone

\* C18: the step in which the loop takes an event while the context is
\* already cancelled ends the session: Update is not called, Run is not
\* called, Start returns.
C18_EventAfterCancelEndsSession ==
    [][\A c \in Clients :
          /\ sess[c].pc = "recv"
          /\ Len(svc'[c].chan) < Len(svc[c].chan)
          /\ ctxDone
          => /\ sess'[c].pc = "done"
             /\ sess'[c].updating = 0 /\ sess'[c].running = 0
             /\ sess'[c].updated = sess[c].updated
             /\ run'[c] = run[c]
             /\ app'.wg = app.wg - 1]_vars

\* A session has ended on an event without an error (an update signal that
\* was in flight when the context was cancelled): the service has sent
\* nothing but such events and the session took the last of them.
C18_Witness ==
    \E c \in Clients :
        /\ sess[c].pc = "done" /\ sess[c].phase = "loop" /\ ctxDone
        /\ Len(svc[c].sent) = 2 /\ Count(svc[c].sent, Nil) = 2
        /\ svc[c].chan = <<>>

\* C19: Setup is called once; the command set runs once after a successful
\* Setup, and only when that Run has returned is the service started and
\* the loop entered; every later Run comes after an Update, and every Update
\* after an event taken from the service.
C19_SetupOnceRunOnceThenLoop ==
    /\ [](\A c \in Clients :
            /\ sess[c].phase = "init" => svc[c].pc = "none"
            /\ sess[c].pc \in {"recv", "update"} => svc[c].pc # "none"
            /\ svc[c].pc # "none" => sess[c].setup = "ok" /\ sess[c].ran)
    /\ [][\A c \in Clients :
            /\ sess'[c].pc = "setup" => sess[c].pc \in {"idle", "setup"}
            /\ sess'[c].setup # sess[c].setup
                  => sess[c].setup = "none" /\ sess[c].pc = "setup"
            /\ sess'[c].running > sess[c].running
                  => \/ /\ sess[c].pc = "setup" /\ sess'[c].setup = "ok"
                        /\ ~sess[c].ran /\ sess'[c].phase = "init"
                     \/ /\ sess[c].pc = "update" /\ sess[c].phase = "loop"
                        /\ svc[c].pc # "none"
            /\ svc[c].pc = "none" /\ svc'[c].pc # "none"
                  => /\ sess[c].pc = "ran" /\ sess[c].phase = "init"
                     /\ sess'[c].pc = "recv"
            /\ sess'[c].updating > sess[c].updating
                  => sess[c].pc = "recv" /\ Len(svc'[c].chan) < Len(svc[c].chan)]_vars

\* The command set runs for the event of a timer tick, after it ran once
\* behind Setup.
C19_Witness ==
    \E c \in Clients :
        /\ sess[c].pc = "run" /\ sess[c].phase = "loop" /\ sess[c].setup = "ok"
        /\ svc[c].sent = <<Nil, Nil>> /\ svc[c].chan = <<>>

\* C12: in the Handler at most one call of Setup or Update on the client's
\* repository is in progress at any time.
C12_SingleWriter ==
    handler.inSetup + handler.updating <= 1

\* Request r was turned down: it was not a POST, or the hook rejected it.
Rejected(r) == hook[r].pc # "none" /\ ~(hook[r].post /\ hook[r].accept)

\* The places in the history of service s of the events sent for request r
\* (r = 0: by the service's own goroutine).
EventsOf(s, r) == {i \in 1..Len(s.origin) : s.origin[i] = r}

\* C13: a request that is not a POST, or that the hook rejects, puts no event
\* without an error on the stream, starts no Update goroutine in the Handler,
\* and is never the event for which a session calls Update.
C13_RejectedNeverUpdates ==
    /\ [](\A r \in 1..MaxReqs :
            Rejected(r)
                => /\ hook[r].upd = "none"
                   /\ hook[r].resp # Nil
                   /\ \A c \in Clients : \A i \in EventsOf(svc[c], r) :
                          svc[c].sent[i] # Nil)
    /\ [][\A c \in Clients :
            sess'[c].updating > sess[c].updating /\ Head(svc[c].from) # 0
                => ~Rejected(Head(svc[c].from))]_vars

\* The session has taken the event of a request that was not a POST and
\* waits for the next event; it has never called Update.
C13_Witness ==
    \E r \in 1..MaxReqs : \E c \in Clients :
        /\ hook[r].to = c /\ hook[r].pc = "done" /\ ~hook[r].post /\ hook[r].accept
        /\ svc[c].chan = <<>> /\ sess[c].pc = "recv"
        /\ ~sess[c].updated /\ ~ctxDone

\* C14: a request handled by the listener of a webhook service has put
\* exactly one event on the stream once its handler is over: without an error
\* if the request was accepted, with the error if it was rejected.
C14_OneEventPerRequest ==
    \A r \in 1..MaxReqs :
        hook[r].to \in Clients /\ hook[r].pc \in {"done", "panic"}
            => /\ Cardinality(EventsOf(svc[hook[r].to], r)) = 1
               /\ \A i \in EventsOf(svc[hook[r].to], r) :
                     svc[hook[r].to].sent[i] = (IF Rejected(r) THEN Err ELSE Nil)

\* C16: the stream of a service is closed only when the context has been
\* cancelled or the service has hit a fatal error of its own: an interval
\* that is not positive, or a listener that failed.
C16_ClosedOnlyOnCancelOrFatal ==
    \A c \in Clients :
        /\ svc[c].closed => ctxDone \/ svc[c].fatal
        /\ svc[c].fatal
              => \/ svc[c].kind = "poll" /\ IntervalFatal(svc[c].interval)
                 \/ svc[c].kind = "webhook" /\ svc[c].last = Err /\ svc[c].shut = "none"

\* The stream of a webhook service is closed behind the error of its
\* listener, while the context is live.
C16_Witness ==
    \E c \in Clients :
        svc[c].kind = "webhook" /\ svc[c].closed /\ svc[c].fatal /\ ~ctxDone

C20_UpToDateIsSuccess ==
    /\ repo.result # "none"
    /\ ~repo.latest /\ repo.ref = "branch"
    /\ ~repo.callNew /\ repo.callNet = "ok"
    => repo.result = Nil

\* The last call was an Update in latest-tag mode whose fetch went through
\* and whose search found no tag in the log of the tracked branch.
NoTagFound ==
    /\ repo.result # "none" /\ repo.latest
    /\ repo.callNet = "ok" /\ repo.callNew
    /\ repo.tags \cap Log(repo.branch) = {}

C22_FixedTagUpdateIsNoOp ==
    /\ [](repo.ref = "tag" /\ repo.result # "none"
            => repo.result = Nil /\ repo.ops = <<>>)
    /\ [][repo.ref = "tag" /\ repo.pc = "ready"
            => /\ repo'.head = repo.head /\ repo'.branch = repo.branch
               /\ repo'.known = repo.known /\ repo'.tags = repo.tags
               /\ repo'.dir = repo.dir /\ repo'.origin = repo.origin]_vars

\* Update has returned for a fixed tag while the remote had new commits and
\* the network was down.
C22_Witness ==
    /\ repo.ref = "tag" /\ repo.result = Nil
    /\ repo.callNet = "fail" /\ repo.remote > repo.known

\* The last call was an Update in latest-tag mode whose search returned a
\* tag.
TagFound ==
    /\ repo.result = Nil /\ repo.latest
    /\ repo.callNet = "ok" /\ repo.callNew
    /\ repo.tags \cap Log(repo.branch) # {}

\* C23: the latest-tag search fetches, checks out the tracked branch and
\* returns the tag of the first tagged commit of the log of the branch's
\* HEAD: the working tree ends on a tagged commit reachable from the branch,
\* the newest such commit, wherever it was before the call.
C23_LatestTagInBranchLog ==
    TagFound =>
        /\ repo.ops = <<"fetch", "checkout", "checkout">>
        /\ repo.head \in repo.tags \cap Log(repo.branch)
        /\ \A t \in repo.tags \cap Log(repo.branch) : t <= repo.head

\* The search returned a tag in an Update that began on an earlier tag, with
\* tags in the repository that are not in the branch's log.
C23_Witness ==
    /\ TagFound
    /\ repo.callHead < repo.branch
    /\ repo.tags \ Log(repo.branch) # {}

\* C24: Setup on a path that holds a repository, with the network working,
\* deletes the remote, creates it again with the configured URL, fetches and
\* checks refName out, in that order, and returns no error; the directory is
\* still the repository and none of its commits is lost, whether it was
\* behind the remote or up to date with it.
C24_SetupReopens ==
    /\ repo.setup # "none" /\ repo.result = "none"
    /\ repo.callDir = "repo" /\ repo.callNet = "ok"
    => /\ repo.setup = Nil
       /\ repo.ops = <<"DeleteRemote", "CreateRemote", "fetch", "checkout">>
       /\ repo.dir = "repo" /\ repo.origin = "url"

\* C25: Setup on a path that is a directory of other files (not empty, not
\* a repository) fails with errNotGitDir and neither clones into the
\* directory nor overwrites it, whatever became of the path between the
\* validation and Setup.
C25_NeverClonesIntoOtherFiles ==
    repo.setup # "none" /\ repo.callDir = "other"
        => /\ repo.setup = ErrNotGitDir
           /\ ~repo.clobbered /\ repo.dir = "other"
           /\ "clone" \notin {repo.ops[i] : i \in 1..Len(repo.ops)}

\* C26: a command without arguments is a no-op: Run neither crashes on it
\* nor hands it to OnStart or OnError, and it starts no process.
C26_EmptyCommandIsNoOp ==
    /\ ~crashed
    /\ \A c \in Clients :
          /\ sess[c].pc # "panic"
          /\ \A i \in 1..Len(cmds[c]) :
                cmds[c][i].Args = <<>>
                    => /\ \A j \in 1..Len(run[c].started) : run[c].started[j] # i
                       /\ \A j \in 1..Len(run[c].errs) : run[c].errs[j][1] # i
                       /\ run[c].procs[i] = "none"

\* C27: an async command is started but not waited for: Run goes straight
\* on from it, to the next command or to its return, with the process
\* running; and however the process ends later, nothing of it reaches
\* OnError (only a failure to start it does).
C27_AsyncNotWaitedFor ==
    /\ [](\A c \in Clients : \A j \in 1..Len(run[c].errs) :
            cmds[c][run[c].errs[j][1]].Async => run[c].errs[j][2] = "spawn")
    /\ [][\A c \in Clients :
            /\ sess[c].pc = "run" /\ sess[c].runIdx <= Len(cmds[c])
            /\ cmds[c][sess[c].runIdx].Async
            /\ run'[c].procs[sess[c].runIdx] = "running"
            => /\ sess'[c].pc \in {"run", "ran"}
               /\ sess'[c].pc = "run" => sess'[c].runIdx = sess[c].runIdx + 1]_vars

\* The second command has been started while the process of the first, an
\* async one, was still running; that process has since ended and Run has
\* returned without an error reported.
C27_Witness ==
    \E c \in Clients :
        /\ Len(cmds[c]) = 2 /\ cmds[c][1].Async
        /\ run[c].started = <<1, 2>>
        /\ run[c].procs[1] = "exited"
        /\ run[c].errs = <<>>
        /\ sess[c].pc = "ran"

\* C28: the process of an async command does not outlive the cancellation
\* of the context: when the context was cancelled while a later, synchronous
\* command was being waited for and Run has returned, no process of an
\* earlier command is still running.
C28_AsyncSignalledOnCancel ==
    \A c \in Clients :
        ctxDone /\ sess[c].pc = "ran" /\ run[c].cancelledInExec # 0
            => \A i \in 1..(run[c].cancelledInExec - 1) : run[c].procs[i] # "running"

\* C29: a poll interval that is not positive is a fatal provisioning error:
\* when the app is provisioned and validated with a client whose poll service
\* is configured with an interval <= 0, the configuration is rejected, so
\* that no session of such a client is started.
C29_NonPositiveIntervalRejected ==
    [][\A c \in app.clients :
          (/\ app.pc = "loaded"
           /\ app'.pc # "loaded"
           /\ svc[c].kind = "poll"
           /\ svc[c].interval <= 0) => app'.pc = "rejected"]_vars

\* C30: Handler.setup is false at first and is true only once the Setup
\* started by Validate has returned without error; a request that ServeHTTP
\* handles while the flag is false is answered with not found, the webhook
\* check is not made for it (no error of the check is returned) and no
\* Update is started for it.
C30_NotFoundUntilSetup ==
    /\ [](handler.pc \in {"none", "provisioned"} => ~handler.setup)
    /\ [](handler.setup => handler.setupPc = "ok")
    /\ [][\A r \in 1..MaxReqs :
             (/\ ~handler.setup
              /\ hook[r].pc = "none"
              /\ hook'[r].pc = "done"
              /\ hook'[r].to = 0)
                 => /\ hook'[r].resp = "not found"
                    /\ hook'[r].upd = "none"
                    /\ handler'.updating = handler.updating]_vars

\* A request was answered with not found after Setup had failed, and the
\* flag is still false.
C30_Witness ==
    /\ handler.setupPc = "err"
    /\ ~handler.setup
    /\ \E r \in 1..MaxReqs :
          /\ hook[r].pc = "done"
          /\ hook[r].to = 0
          /\ hook[r].resp = "not found"
          /\ hook[r].upd = "none"

\* A Branch field that carries a marker: it begins with a type and the
\* delimiter.
Marked(s) == IsLatestCommit(s) \/ IsLatestTag(s) \/ IsTag(s)

\* C31: for every branch string without placeholder and without marker, New
\* makes a branch reference of that very name, "master" for the empty string,
\* and does not track the latest tag.
C31_PlainNameIsBranch ==
    (repo.pc = "new" /\ ~repo.conf.ph /\ ~Marked(repo.conf.text))
        => /\ repo.ref = "branch"
           /\ ~repo.latest
           /\ repo.name = IF repo.conf.text = <<>> THEN DefaultBranch
                                                   ELSE repo.conf.text

\* New was given a plain name that holds the delimiter.
C31_Witness ==
    /\ repo.pc = "new"
    /\ ~repo.conf.ph
    /\ ~Marked(repo.conf.text)
    /\ Len(Split(repo.conf.text, separateDelimeter)) = 2
    /\ repo.ref = "branch"
    /\ repo.name = repo.conf.text

\* The name behind the type and the delimiter of a marked Branch field.
MarkedName(s) == From(s, 2)

\* C32: a latest-tag reference of branch X makes New track the latest tag of
\* a branch reference, of "master" when X is empty and of X otherwise; and
\* fetchLatestTag is never set together with a tag reference.
C32_LatestTagTracksBranch ==
    /\ (repo.pc = "new" /\ ~repo.conf.ph /\ IsLatestTag(repo.conf.text))
          => /\ repo.ref = "branch"
             /\ repo.latest
             /\ repo.name = IF MarkedName(repo.conf.text) = <<>>
                            THEN DefaultBranch
                            ELSE MarkedName(repo.conf.text)
    /\ repo.latest => repo.ref = "branch"

\* C33: a reference marked as the latest commit of branch X makes New set
\* what it sets for the plain branch X: the same reference and the same
\* fetchLatestTag.
C33_LatestCommitIsPlainBranch ==
    (repo.pc = "new" /\ ~repo.conf.ph /\ IsLatestCommit(repo.conf.text))
        => LET plain == New(MarkedName(repo.conf.text))
           IN  /\ repo.ref = plain.refName.kind
               /\ repo.name = plain.refName.name
               /\ repo.latest = plain.fetchLatestTag

\* C34: a name marked as a tag makes New set the tag reference of that name
\* and not track the latest tag.
C34_TagMarkerIsTag ==
    (repo.pc = "new" /\ ~repo.conf.ph /\ IsTag(repo.conf.text))
        => /\ repo.ref = "tag"
           /\ repo.name = MarkedName(repo.conf.text)
           /\ ~repo.latest

\* C35: a malformed marker makes the resolution fail: no repository is ever
\* made whose reference is a tag of the empty name.
C35_NoEmptyTagReference ==
    ~(repo.pc = "new" /\ repo.ref = "tag" /\ repo.name = <<>>)

\* The placeholder was replaced by the reference name v, whose name is n.
ReplacedBy(v, n) ==
    /\ repo.provision = "ok"
    /\ repo.optsBranch = v
    /\ Name(repo.optsBranch) = n

\* C36: the replacer maps every well-formed placeholder to its reference
\* name: git.ref.latest_commit and git.ref.latest_tag to the latest commit
\* and the latest tag of the empty branch name and, for every name b that is
\* not empty, git.ref.branch.b and git.ref.branch.b.latest_commit to the
\* latest commit of b, git.ref.branch.b.latest_tag to the latest tag of b and
\* git.ref.tag.b to the tag b; the name of the result is b again.
C36_PlaceholderRoundTrip ==
    (repo.conf.ph /\ repo.provision # "none")
        => LET key == repo.conf.text
           IN  /\ key = replacerRefPrefix \o <<latestCommit>>
                     => ReplacedBy(NewLatestCommitReferenceName(<<>>), <<>>)
               /\ key = replacerRefPrefix \o <<latestTag>>
                     => ReplacedBy(NewLatestTagReferenceName(<<>>), <<>>)
               /\ \A b \in Names \ {<<>>} :
                     /\ key = replacerRefBranchPrefix \o b
                           => ReplacedBy(NewLatestCommitReferenceName(b), b)
                     /\ key = replacerRefBranchPrefix \o b \o replacerRefLatestCommitSuffix
                           => ReplacedBy(NewLatestCommitReferenceName(b), b)
                     /\ key = replacerRefBranchPrefix \o b \o replacerRefLatestTagSuffix
                           => ReplacedBy(NewLatestTagReferenceName(b), b)
                     /\ key = replacerRefTagPrefix \o b
                           => ReplacedBy(NewTagReferenceName(b), b)

\* C37: an event that carries an error never leads to Update or Run: when
\* the loop of a session takes such an event from the stream, it starts
\* neither, and waits for the next event (or, the context being cancelled,
\* returns).
C37_ErrorEventSkipsUpdate ==
    [][\A c \in Clients :
          (/\ AtReceive(c)
           /\ Len(svc[c].chan) > 0
           /\ Head(svc[c].chan) # Nil
           /\ svc'[c].chan = Tail(svc[c].chan))
              => /\ sess'[c].updating = sess[c].updating
                 /\ sess'[c].running = sess[c].running
                 /\ sess'[c].updated = sess[c].updated
                 /\ sess'[c].pc = IF ctxDone THEN "done" ELSE "recv"]_vars

\* The session has taken the error of a POST request that the hook rejected,
\* has called no Update and waits for the next event.
C37_Witness ==
    \E r \in 1..MaxReqs : \E c \in Clients :
        /\ hook[r].to = c /\ hook[r].pc = "done" /\ hook[r].post /\ ~hook[r].accept
        /\ svc[c].sent # <<>> /\ svc[c].sent[Len(svc[c].sent)] # Nil
        /\ svc[c].chan = <<>> /\ sess[c].pc = "recv"
        /\ ~sess[c].updated /\ sess[c].updating = 0 /\ ~ctxDone

\* C38: no goroutine sends on the stream of a webhook service once the
\* stream is closed: every send of a request handler happens before
\* close(s.tick).
C38_NoSendAfterClose ==
    \A c \in Clients : svc[c].kind = "webhook" => ~svc[c].sendAfterClose

\* C39: once the context is cancelled Run starts no command: no step taken
\* with the context done calls OnStart and Execute for a further command,
\* the first command of a Run that was invoked after the cancellation
\* included.
C39_NoCommandAfterCancel ==
    [][\A c \in Clients :
          ctxDone => Len(run'[c].started) <= Len(run[c].started)]_vars

\* C40: when a secret is configured, the github hook accepts a request only
\* if its signature is the HMAC of its body under that secret: no request
\* without a signature, or with another one, has nil for its result, the
\* event on which the session calls Update.
C40_SignatureRequired ==
    \A r \in 1..MaxReqs :
        (/\ hook[r].to # 0
         /\ svc[hook[r].to].secret # ""
         /\ hook[r].pc \in {"send", "done"}
         /\ hook[r].resp = Nil)
            => /\ Len(hook[r].sig) >= 5
               /\ SigMac(hook[r].sig) = ExpectedMac(svc[hook[r].to].secret, hook[r].body)

====
